---------------------------- MODULE Spec2Model ----------------------------
(***************************************************************************)
(* Model of the Nomad agent (abelclopes/nomad-iabot).                      *)
(*                                                                         *)
(* One behaviour of Spec is one call of Agent.ProcessMessage               *)
(* (internal/agent/agent.go): the seed transcript, the first Chat call,    *)
(* the tool loop bounded by maxIterations, executeTool's dispatch to the   *)
(* DevOps and Trello adapters, and the llm.Client.Chat call with its       *)
(* failure modes.  Text is a sequence of tokens (words, white space,       *)
(* punctuation); an error value is the sequence of the parts fmt.Errorf    *)
(* concatenates, NoError standing for nil.                                 *)
(*                                                                         *)
(* The other specifications share these definitions: SpecArguments is a    *)
(* call whose tool calls carry argument fields, SpecCancel a call whose    *)
(* caller's context is cancelled, SpecConcurrent two interleaved calls,    *)
(* SpecValidator the operations of skills.Validator, SpecText the two text *)
(* functions of internal/skills/validator.go on one input, and             *)
(* SpecProviders a call of an Agent built by agent.New from a validated    *)
(* configuration.  SpecGateway is one llm.Client.Chat call on either       *)
(* backend protocol, SpecAuth the Gateway's routes behind authMiddleware,  *)
(* SpecTelegram the handlers of the Telegram channel, and SpecWebChat the  *)
(* concurrent handlers of the WebChat channel's sessions.                  *)
(***************************************************************************)
EXTENDS Integers, Sequences, FiniteSets, TLC

VARIABLES
    config,           \* the *config.Config agent.New was given
    cfg,              \* which adapters agent.New created (devopsTool, trelloTool)
    message,          \* the message argument of ProcessMessage
    pc,               \* position inside ProcessMessage
    messages,         \* the local transcript []llm.Message
    choice,           \* the local variable choice (resp.Choices[0])
    i,                \* the loop counter of the tool loop
    tc,               \* index of the next tool call of choice.ToolCalls
    reply,            \* returned string
    err,              \* returned error
    chatCalls,        \* history: number of llmClient.Chat calls made
    backendRequests,  \* history: number of HTTP requests httpClient.Do issued
    lastSent,         \* history: transcript passed to the latest Chat call
    requested,        \* history: number of tool calls requested by all responses
    toolLog,          \* history: one record per executeTool call
    gatewayFailed,    \* history: a Chat call returned an error
    freeLeft,         \* the model's remaining budget of freely chosen calls
    calls,            \* the tool calls the model's responses draw from
    logs,             \* history: the records written to a.logger
    channel,          \* the channel argument of ProcessMessage
    callerCancelled,  \* the context of the channel's caller is cancelled
    lateSuccess,      \* history: a Chat call returned a choice, or an adapter's
                      \* request succeeded, after that cancellation
    allowedCommands,  \* skills.Validator.allowedCommands
    everRegistered,   \* history: names passed to RegisterCommand(s) so far
    validatorOp,      \* history: the latest operation on the Validator
    userInput,        \* the argument of DetectPromptInjection / SanitizeInput
    textDone,         \* which of the two functions have returned
    detected,         \* result of DetectPromptInjection(userInput)
    sanitized,        \* result of SanitizeInput(userInput)
    procs,            \* locals of concurrent ProcessMessage calls
    baseURL,          \* llm.Client.baseURL
    backendBody,      \* the body the LLM backend answers a Chat request with
    chatResponse,     \* the *ChatResponse returned by llm.Client.Chat
    chatReturned,     \* llm.Client.Chat has returned
    security,         \* config.SecurityConfig (AuthMode, JWTSecret)
    httpRequest,      \* the latest request the Gateway's router received
    httpStatus,       \* the status code it was answered with
    reached,          \* the route handler that request reached
    allowFrom,        \* config.TelegramConfig.AllowFrom
    update,           \* the latest update the Telegram bot received
    botSent,          \* the messages the bot sent in answer to it
    handlerInvoked,   \* history: tc.handler was called for it
    sessions,         \* the keys of WebChatChannel.sessions
    sessionObjects,   \* the *WebChatSession values ever created, by ID
    sendCalls,        \* locals of the handleSendMessage calls
    deletedIDs,       \* history: the keys deleted from WebChatChannel.sessions
    retrieved         \* the latest answer of handleGetMessages

\* the variables of one ProcessMessage call
agentVars == <<config, cfg, message, pc, messages, choice, i, tc, reply, err,
               chatCalls, backendRequests, lastSent, requested, toolLog,
               gatewayFailed, freeLeft, calls, logs, channel,
               callerCancelled, lateSuccess>>

\* the variables of the Validator
validatorVars == <<allowedCommands, everRegistered, validatorOp>>

\* the variables of the text functions
textVars == <<userInput, textDone, detected, sanitized>>

\* the variables of llm.Client.Chat
gatewayVars == <<baseURL, backendBody, chatResponse, chatReturned>>

\* the variables of the Gateway's router
authVars == <<security, httpRequest, httpStatus, reached>>

\* the variables of the Telegram channel
telegramVars == <<allowFrom, update, botSent, handlerInvoked>>

\* the variables of the WebChat channel
webchatVars == <<sessions, sessionObjects, sendCalls, deletedIDs, retrieved>>

\* the variables of the channels and of the Gateway's edge
edgeVars == <<gatewayVars, authVars, telegramVars, webchatVars>>

vars == <<agentVars, validatorVars, textVars, procs, edgeVars>>

-----------------------------------------------------------------------------
(* Bounds of the model                                                     *)

\* number of tool calls per run whose name, arguments and service outcome are
\* chosen freely; the responses after them request the one call PlainCall
FreeCalls == 2

\* number of tokens of the longest input of the text functions
MaxTextLen == 3

\* the byte limit of one Telegram message, standing for the 4000 of
\* telegram.go:162 and 205
maxLength == 3

\* number of bytes of the longest reply text the message handler returns
MaxReplyLen == 5

\* number of handleSendMessage requests
MaxSends == 2

(* Program constants                                                       *)

\* agent.go:106  maxIterations := 10 // Safety limit
maxIterations == 10

NoError == <<>>
NoChoice == [content |-> <<>>, toolCalls |-> <<>>]

-----------------------------------------------------------------------------
(* Text: skills.SanitizeInput (internal/skills/validator.go)               *)

\* white-space tokens, the class \s
Whitespace == {" ", "\t"}

\* strings.ToLower / the flag (?i): the lower-case form of a token
Lower(t) ==
    CASE t = "Ignore" -> "ignore"
      [] t = "SYSTEM" -> "system"
      [] t = "[inst]" -> "[INST]"
      [] OTHER -> t

\* the tokens that do not begin with a word character (the class \w)
NonWord ==
    Whitespace \cup {":", "<|im_start|>", "<|im_end|>", "[INST]", "[/INST]",
                     "\\n", "[FILTERED]"}

\* one element of a pattern: a literal (compared case-insensitively), \s+,
\* \s* or a word character
Lit(t) == [kind |-> "lit", tok |-> t]
Spaces == [kind |-> "s+", tok |-> ""]
OptSpaces == [kind |-> "s*", tok |-> ""]
Word == [kind |-> "w", tok |-> ""]

\* validator.go:49-61, in the order of the slice
SanitizePatterns ==
    << <<Lit("ignore"), Spaces, Lit("previous"), Spaces, Lit("instructions")>>,
       <<Lit("forget"), Spaces, Lit("everything"), Spaces, Lit("above")>>,
       <<Lit("you"), Spaces, Lit("are"), Spaces, Lit("now")>>,
       <<Lit("system"), Lit(":")>>,
       <<Lit("assistant"), Lit(":")>>,
       <<Lit("human"), Lit(":")>>,
       <<Lit("ai"), Lit(":")>>,
       <<Lit("<|im_start|>")>>,
       <<Lit("<|im_end|>")>>,
       <<Lit("[INST]")>>,
       <<Lit("[/INST]")>> >>

FILTERED == "[FILTERED]"

\* position after the longest run of white space that starts at position p
RECURSIVE SkipSpaces(_, _)
SkipSpaces(s, p) ==
    IF p <= Len(s) /\ s[p] \in Whitespace THEN SkipSpaces(s, p + 1) ELSE p

\* regexp match of pattern elements k.. of pat at position p of s: the
\* position after the match, or 0 when there is none (\s+ and \s* are greedy,
\* and no literal is white space, so the greedy match is the only one)
RECURSIVE MatchFrom(_, _, _, _)
MatchFrom(pat, k, s, p) ==
    IF k > Len(pat) THEN p
    ELSE IF pat[k].kind = "s*" THEN MatchFrom(pat, k + 1, s, SkipSpaces(s, p))
    ELSE IF p > Len(s) THEN 0
    ELSE IF pat[k].kind = "lit"
         THEN IF Lower(s[p]) = Lower(pat[k].tok)
              THEN MatchFrom(pat, k + 1, s, p + 1) ELSE 0
    ELSE IF pat[k].kind = "w"
         THEN IF Lower(s[p]) \notin NonWord
              THEN MatchFrom(pat, k + 1, s, p + 1) ELSE 0
    ELSE IF s[p] \in Whitespace
         THEN MatchFrom(pat, k + 1, s, SkipSpaces(s, p)) ELSE 0

\* regexp.MatchString: the pattern matches somewhere in s
MatchString(pat, s) == \E p \in 1..Len(s) : MatchFrom(pat, 1, s, p) > 0

\* regexp.ReplaceAllString(s, "[FILTERED]") from position p on: leftmost
\* matches, not overlapping
RECURSIVE ReplaceAllFrom(_, _, _)
ReplaceAllFrom(pat, s, p) ==
    IF p > Len(s) THEN <<>>
    ELSE LET e == MatchFrom(pat, 1, s, p)
         IN IF e > 0 THEN <<FILTERED>> \o ReplaceAllFrom(pat, s, e)
            ELSE <<s[p]>> \o ReplaceAllFrom(pat, s, p + 1)

\* the loop of validator.go:63-67 from pattern k on
RECURSIVE SanitizeFrom(_, _)
SanitizeFrom(s, k) ==
    IF k > Len(SanitizePatterns) THEN s
    ELSE SanitizeFrom(ReplaceAllFrom(SanitizePatterns[k], s, 1), k + 1)

SanitizeInput(input) == SanitizeFrom(input, 1)

\* validator.go:75-88, in the order of the slice
DetectPatterns ==
    << <<Lit("ignore"), Spaces, Lit("previous"), Spaces, Lit("instructions")>>,
       <<Lit("forget"), Spaces, Lit("everything")>>,
       <<Lit("disregard"), Spaces, Lit("all"), Spaces, Lit("previous")>>,
       <<Lit("you"), Spaces, Lit("are"), Spaces, Lit("now"), Spaces, Word>>,
       <<Lit("act"), Spaces, Lit("as"), Spaces, Lit("if"), Spaces, Lit("you")>>,
       <<Lit("pretend"), Spaces, Lit("to"), Spaces, Lit("be")>>,
       <<Lit("from"), Spaces, Lit("now"), Spaces, Lit("on")>>,
       <<Lit("system"), Lit(":"), OptSpaces, Word>>,
       <<Lit("assistant"), Lit(":"), OptSpaces, Word>>,
       <<Lit("<|im_start|>")>>,
       <<Lit("[INST]")>>,
       <<Lit("\\n"), Lit("\\n"), Lit("system")>> >>

\* validator.go:90  strings.ToLower(input)
ToLower(s) == [k \in 1..Len(s) |-> Lower(s[k])]

\* skills.DetectPromptInjection, validator.go:73-100
DetectPromptInjection(text) ==
    \E k \in 1..Len(DetectPatterns) : MatchString(DetectPatterns[k], ToLower(text))

\* the messages a caller passes to ProcessMessage
Texts ==
    { <<"list", " ", "items">>,
      <<"Ignore", " ", "\t", "previous", " ", "instructions", " ", "list">>,
      <<"SYSTEM", ":", " ", "[inst]", "list">> }

-----------------------------------------------------------------------------
(* The tool providers: devops.Tool.Execute and trello.Tool.Execute         *)

\* the cases of the switch of devops/tools.go:219-246
DevOpsToolNames ==
    { "devops_list_my_workitems", "devops_get_workitem",
      "devops_create_workitem", "devops_update_workitem",
      "devops_query_workitems", "devops_list_pipelines",
      "devops_run_pipeline", "devops_list_repos", "devops_list_boards" }

\* the cases of the switch of trello/tools.go:256-289
TrelloToolNames ==
    { "trello_list_boards", "trello_get_board", "trello_get_lists",
      "trello_create_list", "trello_create_card", "trello_get_card",
      "trello_get_cards_on_list", "trello_get_cards_on_board",
      "trello_update_card", "trello_add_comment", "trello_get_board_members" }

\* skills.GetAllowedDevOpsCommands, validator.go:103-115
GetAllowedDevOpsCommands ==
    { "devops_list_my_workitems", "devops_get_workitem",
      "devops_create_workitem", "devops_update_workitem",
      "devops_query_workitems", "devops_list_pipelines",
      "devops_run_pipeline", "devops_list_repos", "devops_list_boards" }

\* Validator.IsCommandAllowed, validator.go:34-36
IsCommandAllowed(allowed, command) == command \in allowed

\* the tool names and raw arguments the model's responses draw from
CallNames == {"devops_list_repos", "trello_list_boards", "shell_exec"}
RawArguments == {"{}", "{"}
CallSet == [name : CallNames, arguments : RawArguments]
PlainCall == [name |-> "devops_list_repos", arguments |-> ""]

\* raw arguments that are JSON objects with string fields
TaskWithTitle == "{\"type\":\"Task\",\"title\":\"T\"}"
TaskWithoutTitle == "{\"type\":\"Task\"}"
QueryGiven == "{\"query\":\"q\"}"
CardWithName == "{\"list_id\":\"l\",\"name\":\"n\"}"
CardWithEmptyName == "{\"list_id\":\"l\",\"name\":\"\"}"

\* tool calls of tools that take arguments, with and without the fields the
\* tool's schema requires
ArgumentCalls ==
    { [name |-> "devops_create_workitem", arguments |-> TaskWithTitle],
      [name |-> "devops_create_workitem", arguments |-> TaskWithoutTitle],
      [name |-> "devops_query_workitems", arguments |-> QueryGiven],
      [name |-> "devops_query_workitems", arguments |-> "{}"],
      [name |-> "trello_create_card", arguments |-> CardWithName],
      [name |-> "trello_create_card", arguments |-> CardWithEmptyName] }

\* outcome of the REST request an adapter sends to its service
ServiceOutcomes == {"ok", "fail"}

\* json.Unmarshal([]byte(arguments), &args) into a map: an object or null
ParsesAsMap(arguments) ==
    arguments \in {"{}", "null", TaskWithTitle, TaskWithoutTitle, QueryGiven,
                   CardWithName, CardWithEmptyName}

\* the keys of the parsed map args that hold a non-empty value: what
\* getString(args, key) != "" (devops/tools.go:435-440) and the type
\* assertions of the adapters accept
Fields(arguments) ==
    CASE arguments = TaskWithTitle -> {"type", "title"}
      [] arguments = TaskWithoutTitle -> {"type"}
      [] arguments = QueryGiven -> {"query"}
      [] arguments = CardWithName -> {"list_id", "name"}
      [] arguments = CardWithEmptyName -> {"list_id"}
      [] OTHER -> {}

\* the "required" list of a tool's parameter schema: devops/tools.go:32-210,
\* trello/tools.go:32-247
RequiredFields(name) ==
    CASE name \in {"devops_get_workitem", "devops_update_workitem"} -> {"id"}
      [] name = "devops_create_workitem" -> {"type", "title"}
      [] name = "devops_query_workitems" -> {"query"}
      [] name = "devops_run_pipeline" -> {"pipeline_id"}
      [] name \in {"trello_get_board", "trello_get_lists",
                   "trello_get_cards_on_board", "trello_get_board_members"}
            -> {"board_id"}
      [] name = "trello_create_list" -> {"board_id", "name"}
      [] name = "trello_create_card" -> {"list_id", "name"}
      [] name \in {"trello_get_card", "trello_update_card"} -> {"card_id"}
      [] name = "trello_get_cards_on_list" -> {"list_id"}
      [] name = "trello_add_comment" -> {"card_id", "text"}
      [] OTHER -> {}

\* the fields a tool's function tests before it calls the client:
\* devops/tools.go:293-415 (createWorkItem, 306-337, tests none),
\* trello/tools.go:319-478
CheckedFields(name) ==
    IF name = "devops_create_workitem" THEN {} ELSE RequiredFields(name)

\* the error of a failed test: "id is required", "board_id and name are
\* required", ...
RequiredError(name) ==
    CASE CheckedFields(name) = {"board_id", "name"}
            -> <<"board_id and name are required">>
      [] CheckedFields(name) = {"list_id", "name"}
            -> <<"list_id and name are required">>
      [] CheckedFields(name) = {"card_id", "text"}
            -> <<"card_id and text are required">>
      [] OTHER -> <<CHOOSE f \in CheckedFields(name) : TRUE, " is required">>

\* an Execute whose default case answers handled = true with an error
DevOpsExecuteClaimsAll(name, args, svc) ==
    [result |-> <<>>, handled |-> TRUE, sent |-> FALSE,
     err |-> <<"unknown devops tool: ", name>>]

\* devops.Tool.Execute, devops/tools.go:218-250: (result, handled, err) and
\* whether the client sent its REST request
DevOpsExecute(name, args, svc) ==
    IF name \notin DevOpsToolNames
    THEN [result |-> <<>>, handled |-> FALSE, err |-> NoError, sent |-> FALSE]
    ELSE IF ~(CheckedFields(name) \subseteq args)
    THEN [result |-> <<>>, handled |-> TRUE, err |-> RequiredError(name),
          sent |-> FALSE]
    ELSE IF svc = "ok"
    THEN [result |-> <<"devops result of ", name>>, handled |-> TRUE,
          err |-> NoError, sent |-> TRUE]
    ELSE [result |-> <<>>, handled |-> TRUE,
          err |-> <<"API error from Azure DevOps">>, sent |-> TRUE]

\* trello.Tool.Execute, trello/tools.go:255-293
TrelloExecute(name, args, svc) ==
    IF name \notin TrelloToolNames
    THEN [result |-> <<>>, handled |-> FALSE, err |-> NoError, sent |-> FALSE]
    ELSE IF ~(CheckedFields(name) \subseteq args)
    THEN [result |-> <<>>, handled |-> TRUE, err |-> RequiredError(name),
          sent |-> FALSE]
    ELSE IF svc = "ok"
    THEN [result |-> <<"trello result of ", name>>, handled |-> TRUE,
          err |-> NoError, sent |-> TRUE]
    ELSE [result |-> <<>>, handled |-> TRUE,
          err |-> <<"API error from Trello">>, sent |-> TRUE]

\* Agent.executeTool, agent.go:195-229: the result, the error, the adapter
\* that handled the call ("none" when no adapter did), whether that adapter
\* sent its REST request, and the adapters whose Execute was called, in the
\* order of the calls
executeTool(c, name, arguments, svc) ==
    LET d == DevOpsExecute(name, Fields(arguments), svc)
        t == TrelloExecute(name, Fields(arguments), svc)
        viaDevOps == IF c.devops THEN <<"devops">> ELSE <<>>
        viaTrello == IF c.trello THEN <<"trello">> ELSE <<>>
    IN IF arguments # "" /\ ~ParsesAsMap(arguments)
       THEN [result |-> <<>>, adapter |-> "none", sent |-> FALSE,
             offered |-> <<>>,
             err |-> <<"failed to parse arguments: ", "invalid character">>]
       ELSE IF c.devops /\ d.handled
       THEN [result |-> d.result, adapter |-> "devops", sent |-> d.sent,
             offered |-> viaDevOps, err |-> d.err]
       ELSE IF c.trello /\ t.handled
       THEN [result |-> t.result, adapter |-> "trello", sent |-> t.sent,
             offered |-> viaDevOps \o viaTrello, err |-> t.err]
       ELSE [result |-> <<>>, adapter |-> "none", sent |-> FALSE,
             offered |-> viaDevOps \o viaTrello,
             err |-> <<"unknown tool: ", name>>]

\* a tool Turn that carries errors only and drops the adapter's text
ToolTurnContentErrorsOnly(r) ==
    IF r.err # NoError THEN <<"Error executing tool: ">> \o r.err
    ELSE <<>>

\* agent.go:118-121: the content of the tool Turn of one call
ToolTurnContent(r) ==
    IF r.err # NoError THEN <<"Error executing tool: ">> \o r.err
    ELSE r.result

-----------------------------------------------------------------------------
(* The Gateway: llm.Client.Chat (channels/webchat.go:362-412)              *)

\* what the backend does with the one request of a Chat call
ChatFailures ==
    { [kind |-> "transport", status |-> "", body |-> ""],
      [kind |-> "status", status |-> "500", body |-> "b1"],
      [kind |-> "status", status |-> "500", body |-> "b2"],
      [kind |-> "decode", status |-> "200", body |-> "b1"] }

\* the error Chat returns: webchat.go:397, 403, 408
ChatError(f) ==
    CASE f.kind = "transport" -> <<"request failed: ", "connection refused">>
      [] f.kind = "status" -> <<"API error (status ", f.status, "): ", f.body>>
      [] OTHER -> <<"failed to decode response: ", "unexpected EOF">>

\* a Chat that sends its request a second time after a failure
RequestsPerChatWithRetry == 1 + 1

\* the requests one Chat call sends to the backend: the one httpClient.Do of
\* webchat.go:395
RequestsPerChat == 1

\* content of the n-th response of the model
ContentOf(n) == <<"answer", ToString(n)>>

-----------------------------------------------------------------------------
(* Agent.ProcessMessage, agent.go:66-144                                   *)

\* agent.go:147-175 buildSystemPrompt
buildSystemPrompt(c) ==
    <<"capabilities">>
      \o (IF c.devops THEN <<"Azure DevOps">> ELSE <<>>)
      \o (IF c.trello THEN <<"Trello">> ELSE <<>>)
      \o <<"guidelines">>

\* agent.go:79: the user Turn
UserTurn(text) == [role |-> "user", content |-> text]

\* a seed transcript without the system Turn
SeedTranscriptWithoutSystem(c, text) == <<UserTurn(text)>>

\* agent.go:77-80
SeedTranscript(c, text) ==
    << [role |-> "system", content |-> buildSystemPrompt(c)], UserTurn(text) >>

\* a loop that runs once more: i <= maxIterations
LoopGuardInclusive(iter, ch) == iter <= maxIterations /\ Len(ch.toolCalls) > 0

\* a loop that does not test whether the response requests tools
LoopGuardIgnoresToolCalls(iter, ch) == iter < maxIterations

\* agent.go:107: the condition of the tool loop
LoopGuard(iter, ch) == iter < maxIterations /\ Len(ch.toolCalls) > 0

\* a reply that is dropped when the last response still requests tools
ExitReplyUnlessToolCalls(ch) ==
    IF Len(ch.toolCalls) > 0 THEN <<>> ELSE ch.content

\* agent.go:143: the reply returned when the loop is left
ExitReply(ch) == ch.content

\* a first-round failure that is swallowed: return "", nil
FirstRoundErrorSwallowed(e) == NoError

\* a later-round failure that is turned into no error
LaterRoundErrorAbsorbed(e) == NoError

\* agent.go:95 and agent.go:134: the errors returned for a failed Chat
FirstRoundError(e) == <<"failed to process message: ">> \o e
LaterRoundError(e) == <<"failed to process tool results: ">> \o e

\* a response without choices that is returned as an empty reply, nil
NoResponseErrorNil == <<>>

\* agent.go:100, 138
NoResponseError == <<"no response from LLM">>

\* a range loop that walks the tool calls from the last to the first
NextCallReversed(ch, k) == ch.toolCalls[Len(ch.toolCalls) - k + 1]

\* agent.go:117: the k-th tool call of the range loop
NextCall(ch, k) == ch.toolCalls[k]

\* an assistant Turn that drops the content of the response
AssistantTurnWithoutContent(ch) == [role |-> "assistant", content |-> <<>>]

\* agent.go:111-114: the assistant Turn of a round
AssistantTurn(ch) == [role |-> "assistant", content |-> ch.content]

\* a range loop that stops at the first tool call that fails
MoreCallsUnlessError(ch, k, r) == k < Len(ch.toolCalls) /\ r.err = NoError

\* agent.go:117-128: the range loop goes on to the next tool call whatever
\* the result r of the k-th one was
MoreCalls(ch, k, r) == k < Len(ch.toolCalls)

\* the values of the channel argument: channels/webchat.go:142,
\* gateway/handlers.go:43, channels/telegram.go:110
Channels == {"webchat", "api", "telegram"}

\* whether the ctx argument of ProcessMessage is done once the caller's
\* context is: r.Context() in webchat.go:153 and handlers.go:43,
\* context.Background() in telegram.go:136
HandlerContext(ch, cancelled) == IF ch = "telegram" THEN FALSE ELSE cancelled

\* ctx.Done() inside ProcessMessage
CtxDone == HandlerContext(channel, callerCancelled)

\* the records ProcessMessage and executeTool write to a.logger
LogProcessing == [level |-> "INFO", msg |-> "processing message"]
LogChatFailed == [level |-> "ERROR", msg |-> "LLM request failed"]
LogToolCalls == [level |-> "INFO", msg |-> "processing tool calls"]
LogLaterChatFailed ==
    [level |-> "ERROR", msg |-> "LLM request failed during tool processing"]
LogExecuting == [level |-> "INFO", msg |-> "executing tool"]

\* the non-empty lists of at most b freely chosen tool calls
FreeLists(b) == UNION { [1..n -> calls] : n \in 1..b }

\* a second choice of a response, which ProcessMessage never reads
DecoyChoice == [content |-> <<"decoy">>, toolCalls |-> <<PlainCall>>]

\* the successful responses the backend may give to the n-th Chat call with a
\* budget of b free calls: resp.Choices and the budget left afterwards
Responses(n, b) ==
    { [choices |-> <<[content |-> ContentOf(n), toolCalls |-> <<>>]>>,
       left |-> b],
      [choices |-> <<[content |-> ContentOf(n), toolCalls |-> <<>>],
                     DecoyChoice>>,
       left |-> b],
      [choices |-> <<[content |-> ContentOf(n), toolCalls |-> <<PlainCall>>]>>,
       left |-> 0] }
    \cup { [choices |-> <<[content |-> ContentOf(n), toolCalls |-> l]>>,
            left |-> b] : l \in FreeLists(b) }

\* the outcomes of a REST request an adapter sends now
ServiceOutcomesNow ==
    IF CtxDone THEN {"fail"}
    ELSE IF freeLeft > 0 THEN ServiceOutcomes ELSE {"ok"}

\* the configurations: for each provider its enabled flag
\* (AZURE_DEVOPS_ENABLED, TRELLO_ENABLED) and, for each credential, whether
\* it is set (non-empty); config.go:123-133
Configs ==
    [devops : [enabled : BOOLEAN, organization : BOOLEAN, project : BOOLEAN,
               pat : BOOLEAN],
     trello : [enabled : BOOLEAN, apiKey : BOOLEAN, token : BOOLEAN]]

\* Config.validate, config.go:173-194: the provider part
validate(cf) ==
    /\ cf.devops.enabled =>
          cf.devops.organization /\ cf.devops.project /\ cf.devops.pat
    /\ cf.trello.enabled => cf.trello.apiKey /\ cf.trello.token

\* agent.New, agent.go:38-60: which adapters are created
New(cf) ==
    [devops |-> cf.devops.pat /\ cf.devops.organization,
     trello |-> cf.trello.apiKey /\ cf.trello.token]

\* a configuration in which exactly the adapters of c are enabled and have
\* their credentials
ConfigFor(c) ==
    [devops |-> [enabled |-> c.devops, organization |-> c.devops,
                 project |-> c.devops, pat |-> c.devops],
     trello |-> [enabled |-> c.trello, apiKey |-> c.trello,
                 token |-> c.trello]]

\* Agent.getAvailableTools, agent.go:178-192: the names of the catalog
getAvailableTools(c) ==
    (IF c.devops THEN DevOpsToolNames ELSE {})
      \cup (IF c.trello THEN TrelloToolNames ELSE {})

\* no ProcessMessage call has started
AgentIdle ==
    /\ pc = "start"
    /\ messages = <<>>
    /\ choice = NoChoice
    /\ i = 0
    /\ tc = 0
    /\ reply = <<>>
    /\ err = NoError
    /\ chatCalls = 0
    /\ backendRequests = 0
    /\ lastSent = <<>>
    /\ requested = 0
    /\ toolLog = <<>>
    /\ gatewayFailed = FALSE
    /\ logs = <<>>
    /\ callerCancelled = FALSE
    /\ lateSuccess = FALSE

\* skills.NewValidator, validator.go:14-18, and no operation on it yet
ValidatorIdle ==
    /\ allowedCommands = {}
    /\ everRegistered = {}
    /\ validatorOp = [op |-> "new", names |-> {}, err |-> NoError]

\* neither text function has been called
TextIdle ==
    /\ userInput = <<>>
    /\ textDone = {}
    /\ detected = FALSE
    /\ sanitized = <<>>

\* llm.Client.Chat has not been called
GatewayIdle ==
    /\ baseURL = ""
    /\ backendBody = <<>>
    /\ chatResponse = <<>>
    /\ chatReturned = FALSE

\* the Gateway's router has received no request
AuthIdle ==
    /\ security = <<>>
    /\ httpRequest = <<>>
    /\ httpStatus = 0
    /\ reached = "none"

\* the Telegram bot has received no update
TelegramIdle ==
    /\ allowFrom = {}
    /\ update = <<>>
    /\ botSent = <<>>
    /\ handlerInvoked = FALSE

\* NewWebChatChannel, webchat.go:40-45, and no request yet
WebChatIdle ==
    /\ sessions = {}
    /\ sessionObjects = <<>>
    /\ sendCalls = <<>>
    /\ deletedIDs = {}
    /\ retrieved = <<>>

EdgeIdle == GatewayIdle /\ AuthIdle /\ TelegramIdle /\ WebChatIdle

Init ==
    /\ cfg \in [devops : BOOLEAN, trello : BOOLEAN]
    /\ config = ConfigFor(cfg)
    /\ message \in Texts
    /\ channel = "api"
    /\ calls = CallSet
    /\ freeLeft = FreeCalls
    /\ AgentIdle
    /\ ValidatorIdle
    /\ TextIdle
    /\ EdgeIdle
    /\ procs = <<>>

\* the arguments of ProcessMessage and the configuration of the Agent
setup == <<config, cfg, message, calls, channel>>

\* the variables ProcessMessage has no access to
nonAgent == <<validatorVars, textVars, procs, edgeVars>>

\* one call llmClient.Chat(ctx, transcript, opts...)
ChatCalled(transcript) ==
    /\ chatCalls' = chatCalls + 1
    /\ backendRequests' = backendRequests + RequestsPerChat
    /\ lastSent' = transcript

\* the Chat call returned an error e: "return "", fmt.Errorf(...)"
ReturnError(transcript, e) ==
    /\ messages' = transcript
    /\ pc' = "done"
    /\ reply' = <<>>
    /\ err' = e
    /\ UNCHANGED <<choice, i, tc, requested, toolLog, freeLeft>>
    /\ UNCHANGED <<setup, callerCancelled, nonAgent>>

\* the Chat call returned resp.Choices[0] = ch: the test of the loop
\* (agent.go:107) with counter iter, then agent.go:108-114 or agent.go:143;
\* logged is the log before the test
EnterLoop(transcript, ch, iter, logged) ==
    /\ choice' = ch
    /\ i' = iter
    /\ requested' = requested + Len(ch.toolCalls)
    /\ IF LoopGuard(iter, ch)
       THEN /\ messages' = Append(transcript, AssistantTurn(ch))
            /\ logs' = Append(logged, LogToolCalls)
            /\ pc' = IF Len(ch.toolCalls) > 0 THEN "tools" ELSE "chat"
            /\ tc' = 1
            /\ UNCHANGED <<reply, err>>
       ELSE /\ messages' = transcript
            /\ logs' = logged
            /\ pc' = "done"
            /\ tc' = tc
            /\ reply' = ExitReply(ch)
            /\ err' = NoError
    /\ lateSuccess' = (lateSuccess \/ callerCancelled)
    /\ UNCHANGED <<toolLog, gatewayFailed>>
    /\ UNCHANGED <<setup, callerCancelled, nonAgent>>

\* agent.go:67-96: the first Chat call fails
InitialChatFails ==
    /\ pc = "start"
    /\ \E f \in ChatFailures :
         /\ ChatCalled(SeedTranscript(cfg, message))
         /\ gatewayFailed' = TRUE
         /\ logs' = logs \o <<LogProcessing, LogChatFailed>>
         /\ lateSuccess' = lateSuccess
         /\ ReturnError(SeedTranscript(cfg, message),
                        FirstRoundError(ChatError(f)))

\* agent.go:67-101: the first response has no choices
InitialChatEmpty ==
    /\ pc = "start"
    /\ ~CtxDone
    /\ ChatCalled(SeedTranscript(cfg, message))
    /\ gatewayFailed' = gatewayFailed
    /\ logs' = Append(logs, LogProcessing)
    /\ lateSuccess' = lateSuccess
    /\ ReturnError(SeedTranscript(cfg, message), NoResponseError)

\* agent.go:67-114: the first response has a choice
InitialChatReplies ==
    /\ pc = "start"
    /\ ~CtxDone
    /\ \E r \in Responses(chatCalls + 1, freeLeft) :
         /\ ChatCalled(SeedTranscript(cfg, message))
         /\ freeLeft' = r.left
         /\ EnterLoop(SeedTranscript(cfg, message), r.choices[1], 0,
                      Append(logs, LogProcessing))

\* agent.go:117-128: one iteration of the range loop over choice.ToolCalls
ExecuteToolCall ==
    /\ pc = "tools"
    /\ \E svc \in ServiceOutcomesNow :
         LET call == NextCall(choice, tc)
             r == executeTool(cfg, call.name, call.arguments, svc)
         IN /\ messages' = Append(messages, [role |-> "tool",
                                              content |-> ToolTurnContent(r)])
            /\ toolLog' = Append(toolLog,
                   [round |-> i + 1, index |-> tc, name |-> call.name,
                    arguments |-> call.arguments, adapter |-> r.adapter,
                    err |-> r.err, sent |-> r.sent, offered |-> r.offered,
                    content |-> ToolTurnContent(r)])
            /\ lateSuccess' =
                   (lateSuccess \/ (callerCancelled /\ r.sent /\ svc = "ok"))
            /\ IF MoreCalls(choice, tc, r)
               THEN tc' = tc + 1 /\ pc' = pc
               ELSE tc' = tc /\ pc' = "chat"
    /\ logs' = Append(logs, LogExecuting)
    /\ freeLeft' = IF freeLeft > 0 THEN freeLeft - 1 ELSE 0
    /\ UNCHANGED <<choice, i, reply, err, chatCalls, backendRequests,
                   lastSent, requested, gatewayFailed>>
    /\ UNCHANGED <<setup, callerCancelled, nonAgent>>

\* agent.go:131-135: a later Chat call fails
NextChatFails ==
    /\ pc = "chat"
    /\ \E f \in ChatFailures :
         /\ ChatCalled(messages)
         /\ gatewayFailed' = TRUE
         /\ logs' = Append(logs, LogLaterChatFailed)
         /\ lateSuccess' = lateSuccess
         /\ ReturnError(messages, LaterRoundError(ChatError(f)))

\* agent.go:131-139: a later response has no choices
NextChatEmpty ==
    /\ pc = "chat"
    /\ ~CtxDone
    /\ ChatCalled(messages)
    /\ gatewayFailed' = gatewayFailed
    /\ logs' = logs
    /\ lateSuccess' = lateSuccess
    /\ ReturnError(messages, NoResponseError)

\* agent.go:131-140, then i++ and the test of the loop
NextChatReplies ==
    /\ pc = "chat"
    /\ ~CtxDone
    /\ \E r \in Responses(chatCalls + 1, freeLeft) :
         /\ ChatCalled(messages)
         /\ freeLeft' = r.left
         /\ EnterLoop(messages, r.choices[1], i + 1, logs)

Next ==
    \/ InitialChatFails
    \/ InitialChatEmpty
    \/ InitialChatReplies
    \/ ExecuteToolCall
    \/ NextChatFails
    \/ NextChatEmpty
    \/ NextChatReplies

Spec == Init /\ [][Next]_vars

-----------------------------------------------------------------------------
(* skills.Validator (internal/skills/validator.go:9-44)                    *)

\* the command names callers register and validate
CommandNames ==
    {"devops_list_my_workitems", "devops_create_workitem",
     "devops_delete_workitem", "random_command"}

\* a registration that replaces the allowlist by the new names
RegisteredReplacing(allowed, commands) == commands

\* validator.go:22-31: allowedCommands after v.allowedCommands[cmd] = true
\* for every cmd of commands
Registered(allowed, commands) == allowed \cup commands

\* Validator.ValidateCommand, validator.go:39-44
ValidateCommand(allowed, command) ==
    IF ~IsCommandAllowed(allowed, command)
    THEN <<"command not allowed: ", command>>
    ELSE NoError

\* no ProcessMessage call is made
AgentUnused ==
    /\ cfg = [devops |-> FALSE, trello |-> FALSE]
    /\ config = ConfigFor(cfg)
    /\ message = <<>>
    /\ channel = "api"
    /\ calls = {}
    /\ freeLeft = 0
    /\ AgentIdle

InitValidator ==
    /\ ValidatorIdle
    /\ AgentUnused
    /\ TextIdle
    /\ EdgeIdle
    /\ procs = <<>>

\* v.RegisterCommand(command)
RegisterCommand ==
    /\ \E command \in CommandNames :
         /\ allowedCommands' = Registered(allowedCommands, {command})
         /\ everRegistered' = everRegistered \cup {command}
         /\ validatorOp' = [op |-> "register", names |-> {command},
                            err |-> NoError]
    /\ UNCHANGED <<agentVars, textVars, procs, edgeVars>>

\* v.RegisterCommands(commands)
RegisterCommands ==
    /\ \E commands \in SUBSET CommandNames :
         /\ allowedCommands' = Registered(allowedCommands, commands)
         /\ everRegistered' = everRegistered \cup commands
         /\ validatorOp' = [op |-> "register", names |-> commands,
                            err |-> NoError]
    /\ UNCHANGED <<agentVars, textVars, procs, edgeVars>>

\* err := v.ValidateCommand(command)
ValidateCommandCalled ==
    /\ \E command \in CommandNames :
         validatorOp' = [op |-> "validate", names |-> {command},
                         err |-> ValidateCommand(allowedCommands, command)]
    /\ UNCHANGED <<allowedCommands, everRegistered>>
    /\ UNCHANGED <<agentVars, textVars, procs, edgeVars>>

NextValidator ==
    \/ RegisterCommand
    \/ RegisterCommands
    \/ ValidateCommandCalled

SpecValidator == InitValidator /\ [][NextValidator]_vars

-----------------------------------------------------------------------------
(* The text functions on their own: DetectPromptInjection and              *)
(* SanitizeInput applied to one input (validator.go:46-100)                *)

\* the tokens the inputs are made of
TextAlphabet ==
    {"system", "SYSTEM", ":", " ", "list", "human", "forget", "everything",
     "[INST]", "[/INST]"}

\* the inputs: all token sequences of at most MaxTextLen tokens
TextInputs == UNION { [1..n -> TextAlphabet] : n \in 0..MaxTextLen }

InitText ==
    /\ userInput \in TextInputs
    /\ textDone = {}
    /\ detected = FALSE
    /\ sanitized = <<>>
    /\ AgentUnused
    /\ ValidatorIdle
    /\ EdgeIdle
    /\ procs = <<>>

\* detected := DetectPromptInjection(userInput)
DetectCalled ==
    /\ "detect" \notin textDone
    /\ detected' = DetectPromptInjection(userInput)
    /\ textDone' = textDone \cup {"detect"}
    /\ UNCHANGED <<userInput, sanitized, agentVars, validatorVars, procs,
                   edgeVars>>

\* sanitized := SanitizeInput(userInput)
SanitizeCalled ==
    /\ "sanitize" \notin textDone
    /\ sanitized' = SanitizeInput(userInput)
    /\ textDone' = textDone \cup {"sanitize"}
    /\ UNCHANGED <<userInput, detected, agentVars, validatorVars, procs,
                   edgeVars>>

NextText ==
    \/ DetectCalled
    \/ SanitizeCalled

SpecText == InitText /\ [][NextText]_vars

-----------------------------------------------------------------------------
(* ProcessMessage under cancellation of its caller's context               *)

\* one ProcessMessage call from each channel, all tools available, the model
\* requesting PlainCall
InitCancel ==
    /\ cfg = [devops |-> TRUE, trello |-> TRUE]
    /\ config = ConfigFor(cfg)
    /\ message = <<"list", " ", "items">>
    /\ channel \in Channels
    /\ calls = CallSet
    /\ freeLeft = 0
    /\ AgentIdle
    /\ ValidatorIdle
    /\ TextIdle
    /\ EdgeIdle
    /\ procs = <<>>

\* the context of the caller is cancelled while ProcessMessage runs: the HTTP
\* request of webchat.go:153 / handlers.go:43 is aborted, or the bot's
\* context of telegram.go is
Cancel ==
    /\ pc # "done"
    /\ ~callerCancelled
    /\ callerCancelled' = TRUE
    /\ UNCHANGED <<config, cfg, message, pc, messages, choice, i, tc, reply,
                   err, chatCalls, backendRequests, lastSent, requested, toolLog,
                   gatewayFailed, freeLeft, calls, logs, channel, lateSuccess>>
    /\ UNCHANGED nonAgent

NextCancel ==
    \/ Cancel
    \/ InitialChatFails
    \/ InitialChatEmpty
    \/ InitialChatReplies
    \/ ExecuteToolCall
    \/ NextChatFails
    \/ NextChatEmpty
    \/ NextChatReplies

SpecCancel == InitCancel /\ [][NextCancel]_vars

-----------------------------------------------------------------------------
(* ProcessMessage with tool calls of tools that take arguments             *)

\* one ProcessMessage call with both adapters, the model requesting the
\* tool calls of ArgumentCalls
InitArguments ==
    /\ cfg = [devops |-> TRUE, trello |-> TRUE]
    /\ config = ConfigFor(cfg)
    /\ message = <<"list", " ", "items">>
    /\ channel = "api"
    /\ calls = ArgumentCalls
    /\ freeLeft = FreeCalls
    /\ AgentIdle
    /\ ValidatorIdle
    /\ TextIdle
    /\ EdgeIdle
    /\ procs = <<>>

SpecArguments == InitArguments /\ [][Next]_vars

-----------------------------------------------------------------------------
(* Concurrent ProcessMessage calls on one Agent                            *)

\* the concurrent calls
Procs == {1, 2}

\* the message argument of each call
MessageOf(p) ==
    IF p = 1 THEN <<"list", " ", "items">>
    ELSE <<"SYSTEM", ":", " ", "[inst]", "list">>

\* content of the n-th response of the model to call p
ContentFor(p, n) == <<"answer", ToString(n), "to call", ToString(p)>>

\* a tool call no adapter handles
UnknownCall == [name |-> "shell_exec", arguments |-> "{}"]

\* the locals of a ProcessMessage call that has not run yet (agent.go:66)
StartLocal(text) ==
    [message |-> text, pc |-> "start", messages |-> <<>>,
     choice |-> NoChoice, i |-> 0, tc |-> 0, reply |-> <<>>,
     err |-> NoError, executed |-> <<>>]

\* what the environment answers to the next step of a call with locals l:
\* the outcome of a Chat call or of an adapter's request
StepEvents(p, l) ==
    IF l.pc = "tools"
    THEN { [kind |-> "svc", svc |-> s] :
             s \in (IF l.i = 0 /\ l.tc = 1 THEN ServiceOutcomes ELSE {"ok"}) }
    ELSE LET n == IF l.pc = "start" THEN 1 ELSE l.i + 2
             lists == IF l.pc = "start"
                      THEN {<<>>, <<PlainCall>>, <<UnknownCall, PlainCall>>}
                      ELSE {<<>>, <<PlainCall>>}
         IN { [kind |-> "fail"], [kind |-> "empty"] }
            \cup { [kind |-> "choice",
                    choice |-> [content |-> ContentFor(p, n),
                                toolCalls |-> tcs]] : tcs \in lists }

\* agent.go:92-114 and 131-143: the locals after a Chat call on transcript
\* that ended as ev says, iter being the loop counter of the test that follows
AfterChat(l, transcript, ev, iter) ==
    IF ev.kind = "fail"
    THEN [l EXCEPT !.messages = transcript, !.pc = "done",
            !.err = IF l.pc = "start"
                    THEN FirstRoundError(<<"request failed: ", "timeout">>)
                    ELSE LaterRoundError(<<"request failed: ", "timeout">>)]
    ELSE IF ev.kind = "empty"
    THEN [l EXCEPT !.messages = transcript, !.pc = "done",
            !.err = NoResponseError]
    ELSE IF LoopGuard(iter, ev.choice)
    THEN [l EXCEPT !.choice = ev.choice, !.i = iter, !.pc = "tools", !.tc = 1,
            !.messages = Append(transcript, AssistantTurn(ev.choice))]
    ELSE [l EXCEPT !.choice = ev.choice, !.i = iter, !.pc = "done",
            !.messages = transcript, !.reply = ExitReply(ev.choice)]

\* agent.go:117-128: the locals after one iteration of the range loop
AfterTool(c, l, transcript, ev) ==
    LET call == NextCall(l.choice, l.tc)
        r == executeTool(c, call.name, call.arguments, ev.svc)
    IN [l EXCEPT
          !.messages = Append(transcript, [role |-> "tool",
                                           content |-> ToolTurnContent(r)]),
          !.executed = Append(l.executed,
                              [name |-> call.name, adapter |-> r.adapter,
                               sent |-> r.sent]),
          !.tc = IF MoreCalls(l.choice, l.tc, r) THEN l.tc + 1 ELSE l.tc,
          !.pc = IF MoreCalls(l.choice, l.tc, r) THEN "tools" ELSE "chat"]

\* one step of ProcessMessage on locals l, reading its transcript as given
ProcStep(c, l, transcript, ev) ==
    IF l.pc = "start"
    THEN AfterChat(l, SeedTranscript(c, l.message), ev, 0)
    ELSE IF l.pc = "chat"
    THEN AfterChat(l, transcript, ev, l.i + 1)
    ELSE AfterTool(c, l, transcript, ev)

\* a transcript kept in a field of the shared Agent: every call reads the
\* transcript of the first call
TranscriptShared(st, p) == st[1].local.messages

\* agent.go:77: messages is a local variable of the call
TranscriptOf(st, p) == st[p].local.messages

InitConcurrent ==
    /\ procs = [p \in Procs |-> [local |-> StartLocal(MessageOf(p)),
                                 heard |-> <<>>]]
    /\ cfg = [devops |-> TRUE, trello |-> TRUE]
    /\ config = ConfigFor(cfg)
    /\ message = <<>>
    /\ channel = "api"
    /\ calls = {}
    /\ freeLeft = 0
    /\ AgentIdle
    /\ ValidatorIdle
    /\ TextIdle
    /\ EdgeIdle

\* call p makes its next Chat call
ProcChat(p) ==
    /\ procs[p].local.pc \in {"start", "chat"}
    /\ \E ev \in StepEvents(p, procs[p].local) :
         procs' = [procs EXCEPT
                     ![p].local = ProcStep(cfg, procs[p].local,
                                           TranscriptOf(procs, p), ev),
                     ![p].heard = Append(procs[p].heard, ev)]
    /\ UNCHANGED <<agentVars, validatorVars, textVars, edgeVars>>

\* call p executes its next tool call
ProcTool(p) ==
    /\ procs[p].local.pc = "tools"
    /\ \E ev \in StepEvents(p, procs[p].local) :
         procs' = [procs EXCEPT
                     ![p].local = ProcStep(cfg, procs[p].local,
                                           TranscriptOf(procs, p), ev),
                     ![p].heard = Append(procs[p].heard, ev)]
    /\ UNCHANGED <<agentVars, validatorVars, textVars, edgeVars>>

NextConcurrent == \E p \in Procs : ProcChat(p) \/ ProcTool(p)

SpecConcurrent == InitConcurrent /\ [][NextConcurrent]_vars

-----------------------------------------------------------------------------
(* agent.New on every valid configuration, then one ProcessMessage call    *)

\* the tool calls of a model that asks for one tool of each provider
ProviderCalls ==
    { [name |-> "devops_list_repos", arguments |-> "{}"],
      [name |-> "trello_list_boards", arguments |-> "{}"] }

InitProviders ==
    /\ config \in { cf \in Configs : validate(cf) }
    /\ cfg = New(config)
    /\ message = <<"list", " ", "items">>
    /\ channel = "api"
    /\ calls = ProviderCalls
    /\ freeLeft = 1
    /\ AgentIdle
    /\ ValidatorIdle
    /\ TextIdle
    /\ EdgeIdle
    /\ procs = <<>>

SpecProviders == InitProviders /\ [][Next]_vars

-----------------------------------------------------------------------------
(* llm.Client.Chat and its two backend protocols (channels/webchat.go)     *)

\* isOllamaURL, webchat.go:595-599
isOllamaURL(url) ==
    \/ url = "http://localhost:11434"
    \/ url = "http://127.0.0.1:11434"
    \/ url = "http://host.docker.internal:11434"

\* values of LLM_BASE_URL; config.go:110 makes the first one the default
BaseURLs ==
    {"http://localhost:11434", "http://127.0.0.1:11434",
     "http://host.docker.internal:11434", "http://localhost:8080",
     "https://api.openai.com"}

\* what the model produced: a text, tool-call requests, and the finish
\* reason the backend reports ("" when it reports none)
Completions ==
    [content : {<<>>, ContentOf(1)},
     toolCalls : {<<>>, <<PlainCall>>, <<PlainCall, UnknownCall>>},
     finishReason : {"", "stop", "tool_calls"}]

\* the body of an OpenAI-compatible backend's answer: the chat completion
\* object carries the tool calls inside "message"; a backend that writes them
\* next to "message" is the one the tags of llm.Choice (webchat.go:301-307)
\* describe
OpenAIBody(c, placement) ==
    [choices |->
        <<[index |-> 0,
           message |-> [role |-> "assistant", content |-> c.content,
                        tool_calls |-> IF placement = "message"
                                       THEN c.toolCalls ELSE <<>>],
           tool_calls |-> IF placement = "choice" THEN c.toolCalls ELSE <<>>,
           finish_reason |-> c.finishReason]>>]

\* the body of an Ollama backend's answer to POST /api/chat
OllamaBody(c) ==
    [model |-> "llama3.2",
     message |-> [role |-> "assistant", content |-> c.content,
                  tool_calls |-> c.toolCalls],
     done |-> TRUE,
     done_reason |-> c.finishReason]

\* the bodies a backend at url may answer with
Bodies(url) ==
    IF isOllamaURL(url)
    THEN {OllamaBody(c) : c \in Completions}
    ELSE {OpenAIBody(c, p) : c \in Completions, p \in {"message", "choice"}}

\* json.Decode into llm.Message, webchat.go:263-266: role and content only
DecodeMessage(m) == [Role |-> m.role, Content |-> m.content]

\* json.Decode into []llm.Choice, webchat.go:301-307 and 406-409
DecodeChoices(body) ==
    [k \in 1..Len(body.choices) |->
        [Index |-> body.choices[k].index,
         Message |-> DecodeMessage(body.choices[k].message),
         FinishReason |-> body.choices[k].finish_reason,
         ToolCalls |-> body.choices[k].tool_calls]]

\* the conversion of chatOllama, webchat.go:466-491
ConvertOllama(body) ==
    <<[Index |-> 0,
       Message |-> DecodeMessage(body.message),
       FinishReason |-> "stop",
       ToolCalls |-> <<>>]>>

InitGateway ==
    /\ baseURL \in BaseURLs
    /\ backendBody \in Bodies(baseURL)
    /\ chatResponse = <<>>
    /\ chatReturned = FALSE
    /\ AgentUnused
    /\ ValidatorIdle
    /\ TextIdle
    /\ AuthIdle
    /\ TelegramIdle
    /\ WebChatIdle
    /\ procs = <<>>

\* Chat on the OpenAI-compatible path, webchat.go:383-411, status 200
Chat ==
    /\ ~chatReturned
    /\ ~isOllamaURL(baseURL)
    /\ chatResponse' = DecodeChoices(backendBody)
    /\ chatReturned' = TRUE
    /\ UNCHANGED <<baseURL, backendBody, agentVars, validatorVars, textVars,
                   procs, authVars, telegramVars, webchatVars>>

\* Chat handing over to chatOllama, webchat.go:378-381 and 415-492
chatOllama ==
    /\ ~chatReturned
    /\ isOllamaURL(baseURL)
    /\ chatResponse' = ConvertOllama(backendBody)
    /\ chatReturned' = TRUE
    /\ UNCHANGED <<baseURL, backendBody, agentVars, validatorVars, textVars,
                   procs, authVars, telegramVars, webchatVars>>

NextGateway == Chat \/ chatOllama

SpecGateway == InitGateway /\ [][NextGateway]_vars

-----------------------------------------------------------------------------
(* The Gateway's routes and Gateway.authMiddleware (gateway/auth.go)       *)

\* SecurityConfig as config.Load reads it, config.go:117-122, and as
\* Config.validate accepts it, config.go:167-171
SecurityConfigs ==
    { s \in [AuthMode : {"jwt", "token", "none"}, JWTSecret : {"", "s1"}] :
        ~(s.AuthMode = "jwt" /\ s.JWTSecret = "") }

\* bearer tokens: the signing method, the key that signed it, and whether its
\* exp claim has passed; "malformed" is a string that is no JWT
Tokens ==
    [alg : {"HS256", "RS256", "malformed"}, key : {"s1", "other"},
     expired : BOOLEAN]

\* requests: the path, the scheme of the Authorization header ("" when the
\* header is absent, "Bearer-only" for a header without a second part), the
\* token it carries, and whether the token is also given as ?token=
Requests ==
    [path : {"/health", "/ready", "/ws", "/api/v1/chat", "/api/v1/tools",
             "/api/v1/config"},
     scheme : {"", "Bearer", "bearer", "Basic", "Bearer-only"},
     token : Tokens,
     query : BOOLEAN]

\* jwt.Parse with the key function of auth.go:46-52: err == nil && token.Valid
ValidToken(t, secret) ==
    /\ t.alg = "HS256"
    /\ t.key = secret
    /\ ~t.expired

\* authMiddleware, auth.go:12-62: the error it answers 401 with, "" when it
\* calls next
authMiddleware(r, sec) ==
    LET scheme == IF r.scheme = "" /\ r.query THEN "Bearer" ELSE r.scheme
    IN  IF r.path \in {"/health", "/ready"} THEN ""
        ELSE IF scheme = "" THEN "missing authorization header"
        ELSE IF scheme \notin {"Bearer", "bearer"}
        THEN "invalid authorization format"
        ELSE IF ~ValidToken(r.token, sec.JWTSecret) THEN "invalid token"
        ELSE ""

\* the handler setupRoutes registers for the path, part_000:96-142
RouteHandler(path) ==
    CASE path = "/health" -> "handleHealth"
      [] path = "/ready" -> "handleReady"
      [] path = "/ws" -> "handleWebSocket"
      [] path = "/api/v1/chat" -> "handleChat"
      [] path = "/api/v1/tools" -> "handleListTools"
      [] path = "/api/v1/config" -> "handleGetConfig"

\* the paths of the /api/v1 subrouter, part_000:102-135
APIPaths == {"/api/v1/chat", "/api/v1/tools", "/api/v1/config"}

\* part_000:104-106: the subrouter uses authMiddleware in mode "token"
UsesAuth(sec) == sec.AuthMode = "token"

InitAuth ==
    /\ security \in SecurityConfigs
    /\ httpRequest = <<>>
    /\ httpStatus = 0
    /\ reached = "none"
    /\ AgentUnused
    /\ ValidatorIdle
    /\ TextIdle
    /\ GatewayIdle
    /\ TelegramIdle
    /\ WebChatIdle
    /\ procs = <<>>

\* a request to a route registered on the root router, part_000:98-99, 138-141
ServeRoot ==
    /\ \E r \in Requests :
        /\ r.path \notin APIPaths
        /\ httpRequest' = r
        /\ httpStatus' = 200
        /\ reached' = RouteHandler(r.path)
    /\ UNCHANGED <<security, agentVars, validatorVars, textVars, procs,
                   gatewayVars, telegramVars, webchatVars>>

\* a request to a route of the /api/v1 subrouter, part_000:102-135
ServeAPI ==
    /\ \E r \in Requests :
        /\ r.path \in APIPaths
        /\ httpRequest' = r
        /\ IF UsesAuth(security) /\ authMiddleware(r, security) # ""
           THEN httpStatus' = 401 /\ reached' = "none"
           ELSE httpStatus' = 200 /\ reached' = RouteHandler(r.path)
    /\ UNCHANGED <<security, agentVars, validatorVars, textVars, procs,
                   gatewayVars, telegramVars, webchatVars>>

NextAuth == ServeRoot \/ ServeAPI

SpecAuth == InitAuth /\ [][NextAuth]_vars

-----------------------------------------------------------------------------
(* The Telegram channel (channels/telegram.go)                             *)
(*                                                                         *)
(* A reply text is a sequence of bytes over a letter, a space and a line   *)
(* feed; maxLength stands for the 4000 of sendLongMessage.                 *)

\* strings.Split(text, "\n"), telegram.go:227
RECURSIVE SplitLines(_)
SplitLines(text) ==
    IF \A k \in 1..Len(text) : text[k] # "\n"
    THEN <<text>>
    ELSE LET k == CHOOSE j \in 1..Len(text) :
                      text[j] = "\n" /\ \A h \in 1..(j - 1) : text[h] # "\n"
         IN  <<SubSeq(text, 1, k - 1)>>
                 \o SplitLines(SubSeq(text, k + 1, Len(text)))

\* strings.Fields(line), telegram.go:237
RECURSIVE stringsFields(_)
stringsFields(line) ==
    IF line = <<>> THEN <<>>
    ELSE IF Head(line) = " " THEN stringsFields(Tail(line))
    ELSE LET n == IF \A k \in 1..Len(line) : line[k] # " "
                  THEN Len(line)
                  ELSE (CHOOSE j \in 1..Len(line) :
                            line[j] = " "
                            /\ \A h \in 1..(j - 1) : line[h] # " ") - 1
         IN  <<SubSeq(line, 1, n)>> \o stringsFields(SubSeq(line, n + 1, Len(line)))

\* the loop over words, telegram.go:239-249
RECURSIVE AddWords(_, _, _, _)
AddWords(words, chunks, current, maxLen) ==
    IF words = <<>> THEN [chunks |-> chunks, current |-> current]
    ELSE LET word == Head(words)
         IN  IF Len(current) + Len(word) + 1 > maxLen
             THEN AddWords(Tail(words), Append(chunks, current), word, maxLen)
             ELSE AddWords(Tail(words), chunks,
                           IF current # <<>> THEN current \o <<" ">> \o word
                                             ELSE word,
                           maxLen)

\* the loop over lines, telegram.go:230-259
RECURSIVE AddLines(_, _, _, _)
AddLines(lines, chunks, current, maxLen) ==
    IF lines = <<>> THEN [chunks |-> chunks, current |-> current]
    ELSE LET line == Head(lines)
             flushed == IF current # <<>> THEN Append(chunks, current)
                                          ELSE chunks
             byWords == AddWords(stringsFields(line), flushed, <<>>, maxLen)
         IN  IF Len(current) + Len(line) + 1 > maxLen
             THEN IF Len(line) > maxLen
                  THEN AddLines(Tail(lines), byWords.chunks, byWords.current,
                                maxLen)
                  ELSE AddLines(Tail(lines), flushed, line, maxLen)
             ELSE AddLines(Tail(lines), chunks,
                           IF current # <<>> THEN current \o <<"\n">> \o line
                                             ELSE line,
                           maxLen)

\* splitText, telegram.go:221-266
splitText(text, maxLen) ==
    IF Len(text) <= maxLen THEN <<text>>
    ELSE LET r == AddLines(SplitLines(text), <<>>, <<>>, maxLen)
         IN  IF r.current # <<>> THEN Append(r.chunks, r.current)
                                 ELSE r.chunks

\* the messages sendLongMessage sends, telegram.go:161-176
sendLongMessage(text) ==
    IF Len(text) <= maxLength
    THEN <<[kind |-> "reply", text |-> text]>>
    ELSE LET chunks == splitText(text, maxLength)
         IN  [k \in 1..Len(chunks) |-> [kind |-> "reply", text |-> chunks[k]]]

\* the texts tc.handler may return
RECURSIVE ReplyTexts(_)
ReplyTexts(n) ==
    IF n = 0 THEN {<<>>}
    ELSE LET shorter == ReplyTexts(n - 1)
         IN  shorter \cup {Append(t, c) : t \in shorter, c \in {"a", " ", "\n"}}

\* isUserAllowed, telegram.go:147-159
isUserAllowed(userID) ==
    \/ Cardinality(allowFrom) = 0
    \/ userID \in allowFrom

\* the updates the bot receives: the sender's ID and the handler the text of
\* the message selects
Updates ==
    [sender : {1, 2},
     endpoint : {"OnText", "/start", "/help", "/status", "/workitems"}]

\* a fixed text the bot sends
Fixed(kind) == [kind |-> kind, text |-> <<>>]

\* handleMessage, telegram.go:98-145
handleMessage(u) ==
    /\ update' = u
    /\ IF ~isUserAllowed(u.sender)
       THEN /\ botSent' = <<Fixed("refusal")>>
            /\ handlerInvoked' = FALSE
       ELSE /\ handlerInvoked' = TRUE
            /\ \/ botSent' = <<Fixed("error")>>
               \/ \E response \in ReplyTexts(MaxReplyLen) :
                     botSent' = sendLongMessage(response)
    /\ UNCHANGED <<allowFrom, agentVars, validatorVars, textVars, procs,
                   gatewayVars, authVars, webchatVars>>

\* a handler that answers with a fixed text, telegram.go:68-89
FixedAnswer(u, kind) ==
    /\ update' = u
    /\ botSent' = <<Fixed(kind)>>
    /\ handlerInvoked' = FALSE
    /\ UNCHANGED <<allowFrom, agentVars, validatorVars, textVars, procs,
                   gatewayVars, authVars, webchatVars>>

InitTelegram ==
    /\ allowFrom \in SUBSET {1}
    /\ update = <<>>
    /\ botSent = <<>>
    /\ handlerInvoked = FALSE
    /\ AgentUnused
    /\ ValidatorIdle
    /\ TextIdle
    /\ GatewayIdle
    /\ AuthIdle
    /\ WebChatIdle
    /\ procs = <<>>

\* telegram.go:63-65
OnText == \E u \in Updates : u.endpoint = "OnText" /\ handleMessage(u)

\* telegram.go:68-70
OnStart == \E u \in Updates : u.endpoint = "/start" /\ FixedAnswer(u, "greeting")

\* telegram.go:73-84
OnHelp == \E u \in Updates : u.endpoint = "/help" /\ FixedAnswer(u, "help")

\* telegram.go:87-89
OnStatus == \E u \in Updates : u.endpoint = "/status" /\ FixedAnswer(u, "status")

\* telegram.go:92-95
OnWorkitems == \E u \in Updates : u.endpoint = "/workitems" /\ handleMessage(u)

NextTelegram == OnText \/ OnStart \/ OnHelp \/ OnStatus \/ OnWorkitems

SpecTelegram == InitTelegram /\ [][NextTelegram]_vars

-----------------------------------------------------------------------------
(* The WebChat channel's sessions (channels/webchat.go)                    *)
(*                                                                         *)
(* A step is one operation on the sync.Map or one critical section of a    *)
(* session's mutex.  A session's ID is its creation number: uuid.New       *)
(* never returns an ID again, and a session created later is younger.      *)

\* the IDs requests name; at most that many sessions are created
SessionIDs == {1, 2}

\* the handleSendMessage requests
SendIDs == 1..MaxSends

\* WebChatMessage, webchat.go:129-134 and 162-167: the ID is the request's
userMessage(p) == [ID |-> p, Role |-> "user"]
assistantMessage(p) == [ID |-> p, Role |-> "assistant"]

\* mutant of appendMessage: an append outside the mutex, which overwrites
\* the entry another request has just appended
appendMessageRacing(list, m) ==
    IF list # <<>> /\ list[Len(list)].ID # m.ID
    THEN [list EXCEPT ![Len(list)] = m]
    ELSE Append(list, m)

\* session.mu.Lock(); append; session.mu.Unlock(), webchat.go:136-138, 169-171
appendMessage(list, m) == Append(list, m)

InitWebChat ==
    /\ sessions = {}
    /\ sessionObjects = <<>>
    /\ sendCalls = [p \in SendIDs |-> [pc |-> "start", session |-> 0]]
    /\ deletedIDs = {}
    /\ retrieved = <<>>
    /\ AgentUnused
    /\ ValidatorIdle
    /\ TextIdle
    /\ GatewayIdle
    /\ AuthIdle
    /\ TelegramIdle
    /\ procs = <<>>

\* the variables no WebChat handler touches
nonWebChat == <<agentVars, validatorVars, textVars, procs, gatewayVars,
                authVars, telegramVars>>

\* handleCreateSession, webchat.go:58-79
handleCreateSession ==
    /\ Len(sessionObjects) < Cardinality(SessionIDs)
    /\ sessionObjects' = Append(sessionObjects, [Messages |-> <<>>])
    /\ sessions' = sessions \cup {Len(sessionObjects) + 1}
    /\ UNCHANGED <<sendCalls, deletedIDs, retrieved, nonWebChat>>

\* handleDeleteSession, webchat.go:93-101
handleDeleteSession ==
    /\ \E sessionID \in SessionIDs :
        /\ sessions' = sessions \ {sessionID}
        /\ deletedIDs' = deletedIDs \cup (sessions \cap {sessionID})
    /\ UNCHANGED <<sessionObjects, sendCalls, retrieved, nonWebChat>>

\* CleanupOldSessions, webchat.go:215-225: the sessions created before some
\* instant are the ones older than maxAge
CleanupOldSessions ==
    /\ \E oldest \in 1..Len(sessionObjects) :
        LET old == {id \in sessions : id <= oldest}
        IN  /\ sessions' = sessions \ old
            /\ deletedIDs' = deletedIDs \cup old
    /\ UNCHANGED <<sessionObjects, sendCalls, retrieved, nonWebChat>>

\* handleGetMessages, webchat.go:184-201
handleGetMessages ==
    /\ \E sessionID \in SessionIDs :
        IF sessionID \in sessions
        THEN retrieved' = [session |-> sessionID, status |-> 200,
                           messages |-> sessionObjects[sessionID].Messages]
        ELSE retrieved' = [session |-> sessionID, status |-> 404,
                           messages |-> <<>>]
    /\ UNCHANGED <<sessions, sessionObjects, sendCalls, deletedIDs, nonWebChat>>

\* handleSendMessage up to the checks of the request, webchat.go:104-126
SendLoad(p) ==
    /\ sendCalls[p].pc = "start"
    /\ \E sessionID \in SessionIDs, valid \in BOOLEAN :
        sendCalls' = [sendCalls EXCEPT ![p] =
            IF sessionID \notin sessions
            THEN [pc |-> "notFound", session |-> 0]
            ELSE IF ~valid THEN [pc |-> "badRequest", session |-> sessionID]
            ELSE [pc |-> "loaded", session |-> sessionID]]
    /\ UNCHANGED <<sessions, sessionObjects, deletedIDs, retrieved, nonWebChat>>

\* webchat.go:128-138: the user message is appended
SendAppendUser(p) ==
    /\ sendCalls[p].pc = "loaded"
    /\ sessionObjects' = [sessionObjects EXCEPT ![sendCalls[p].session].Messages =
                             appendMessage(@, userMessage(p))]
    /\ sendCalls' = [sendCalls EXCEPT ![p].pc = "handler"]
    /\ UNCHANGED <<sessions, deletedIDs, retrieved, nonWebChat>>

\* webchat.go:154-159: wc.handler returns an error
SendHandlerFails(p) ==
    /\ sendCalls[p].pc = "handler"
    /\ sendCalls' = [sendCalls EXCEPT ![p].pc = "failed"]
    /\ UNCHANGED <<sessions, sessionObjects, deletedIDs, retrieved, nonWebChat>>

\* webchat.go:154, 161-181: wc.handler returns a response, which is appended
SendAppendAssistant(p) ==
    /\ sendCalls[p].pc = "handler"
    /\ sessionObjects' = [sessionObjects EXCEPT ![sendCalls[p].session].Messages =
                             appendMessage(@, assistantMessage(p))]
    /\ sendCalls' = [sendCalls EXCEPT ![p].pc = "done"]
    /\ UNCHANGED <<sessions, deletedIDs, retrieved, nonWebChat>>

\* handleSendMessage, webchat.go:103-182
handleSendMessage ==
    \E p \in SendIDs :
        \/ SendLoad(p)
        \/ SendAppendUser(p)
        \/ SendHandlerFails(p)
        \/ SendAppendAssistant(p)

NextWebChat ==
    \/ handleCreateSession
    \/ handleDeleteSession
    \/ CleanupOldSessions
    \/ handleGetMessages
    \/ handleSendMessage

SpecWebChat == InitWebChat /\ [][NextWebChat]_vars

-----------------------------------------------------------------------------
(* Properties of ProcessMessage                                            *)

\* the tool calls of round r that an adapter executed, in the order of toolLog
RoundExecutions(r) ==
    LET InRound(e) == e.round = r /\ e.adapter # "none"
        picked == SelectSeq(toolLog, InRound)
    IN [k \in 1..Len(picked) |->
          [name |-> picked[k].name, arguments |-> picked[k].arguments]]

\* a tool call executeTool hands to an adapter that handles it
Executable(call) ==
    /\ call.arguments = "" \/ ParsesAsMap(call.arguments)
    /\ \/ cfg.devops /\ call.name \in DevOpsToolNames
       \/ cfg.trello /\ call.name \in TrelloToolNames

\* the first n elements of a sequence
Prefix(seq, n) == [k \in 1..n |-> seq[k]]

\* the elements of a sequence
Range(seq) == { seq[k] : k \in 1..Len(seq) }

\* C1 as claimed: one ProcessMessage call never makes more than maxIterations
\* (10) Gateway chat round-trips.
C1_AtMostMaxIterationsChats == chatCalls <= maxIterations

\* C1 amended: one ProcessMessage call makes at most maxIterations + 1 Chat
\* calls (the first call and one per iteration of the tool loop) and runs at
\* most maxIterations rounds of tool calls.
C1_BoundedLoop ==
    /\ chatCalls <= maxIterations + 1
    /\ i <= maxIterations
    /\ \A k \in 1..Len(toolLog) : toolLog[k].round <= maxIterations

\* C1 witness: the model requested tools in every response up to the ceiling
C1_Witness ==
    /\ pc = "done"
    /\ chatCalls = maxIterations + 1
    /\ Len(choice.toolCalls) > 0

\* C2 as claimed: every tool call an adapter executed has a name registered
\* in the tool registry (Validator.allowedCommands).
C2_WhitelistEnforced ==
    \A k \in 1..Len(toolLog) :
        toolLog[k].adapter # "none" =>
            IsCommandAllowed(allowedCommands, toolLog[k].name)

\* C3 as claimed: the tool Turn of a call that was rejected because its name
\* is not registered does not contain the rejected name.
C3_RejectionHidesName ==
    \A k \in 1..Len(toolLog) :
        ( /\ ~IsCommandAllowed(allowedCommands, toolLog[k].name)
          /\ toolLog[k].adapter = "none" )
        => toolLog[k].name \notin Range(toolLog[k].content)

\* C4 as claimed: the user Turn of every transcript sent to the Gateway is
\* SanitizeInput(message), never the raw message.
C4_SanitizedBeforeModel ==
    chatCalls > 0 =>
        /\ lastSent[2].role = "user"
        /\ lastSent[2].content = SanitizeInput(message)

\* C5: when the first Chat call fails, ProcessMessage has returned an error
\* and an empty reply, and no tool call was executed.
C5_FirstRoundFailure ==
    (gatewayFailed /\ chatCalls = 1) =>
        /\ pc = "done"
        /\ err # NoError
        /\ reply = <<>>
        /\ toolLog = <<>>

\* C5 witness: the first Chat call failed
C5_Witness == gatewayFailed /\ chatCalls = 1 /\ pc = "done"

C7_ForcedExit ==
    (pc = "done" /\ i = maxIterations /\ Len(choice.toolCalls) > 0) =>
        /\ err = NoError
        /\ reply = ContentOf(chatCalls)
        /\ choice.content = ContentOf(chatCalls)
        /\ Len(toolLog) = requested - Len(choice.toolCalls)
        /\ \A k \in 1..Len(toolLog) : toolLog[k].round <= maxIterations

\* C7 witness: the loop was left at the ceiling by a response requesting tools
C7_Witness ==
    /\ pc = "done"
    /\ i = maxIterations
    /\ Len(choice.toolCalls) > 0
    /\ Len(toolLog) >= maxIterations

\* C8: once the first choice of the latest response carries no tool calls,
\* ProcessMessage has returned its content with a nil error; no Chat call
\* and no tool execution follows that response.
C8_NormalExit ==
    /\ [](( /\ chatCalls > 0
            /\ choice.content = ContentOf(chatCalls)
            /\ choice.toolCalls = <<>> )
          => ( /\ pc = "done"
               /\ err = NoError
               /\ reply = ContentOf(chatCalls)
               /\ Len(toolLog) = requested ))
    /\ [][ (choice.toolCalls = <<>> /\ chatCalls > 0)
           => (chatCalls' = chatCalls /\ toolLog' = toolLog) ]_vars

\* C8 witness: a response without tool calls ended a run that had run tools
C8_Witness ==
    /\ pc = "done"
    /\ err = NoError
    /\ chatCalls >= 2
    /\ choice.toolCalls = <<>>
    /\ reply = ContentOf(chatCalls)
    /\ toolLog # <<>>

\* C9: after a Chat call has failed, ProcessMessage has returned an error and
\* makes no further Chat call and no further tool execution; a Chat call
\* sends at most one request to the backend.
C9_NoRetry ==
    /\ [](gatewayFailed => (pc = "done" /\ err # NoError))
    /\ [](backendRequests <= chatCalls)
    /\ [][ gatewayFailed
           => (chatCalls' = chatCalls /\ toolLog' = toolLog) ]_vars

\* C9 witness: a Chat call of a later round failed after tools had run
C9_Witness ==
    /\ gatewayFailed
    /\ chatCalls >= 2
    /\ toolLog # <<>>
    /\ backendRequests = chatCalls

Failed(e) == e.err # NoError

\* C11 as claimed: ProcessMessage returns an error only for a failure of the
\* first round; a failure of a later round does not surface as an error.
C11_ErrorOnlyOnFirstRound == err # NoError => chatCalls = 1

\* C11 amended: ProcessMessage returns an error exactly when a Chat call
\* fails or answers without choices, in the first round ("failed to process
\* message: ...") as in a later one ("failed to process tool results: ...");
\* failed tool calls and the round ceiling never make it return an error.
C11_ErrorIffGatewayFailure ==
    /\ pc # "done" => err = NoError
    /\ pc = "done" =>
          \/ /\ ~gatewayFailed
             /\ err = NoError
             /\ reply = ContentOf(chatCalls)
          \/ /\ ~gatewayFailed
             /\ err = NoResponseError
          \/ /\ gatewayFailed
             /\ chatCalls = 1
             /\ err # NoError
             /\ err[1] = "failed to process message: "
          \/ /\ gatewayFailed
             /\ chatCalls > 1
             /\ err # NoError
             /\ err[1] = "failed to process tool results: "

\* C11 witness: a Chat call of a later round failed, after a failed tool call
\* that had not ended the run
C11_Witness ==
    /\ pc = "done"
    /\ chatCalls > 1
    /\ err # NoError
    /\ err[1] = "failed to process tool results: "
    /\ \E k \in 1..Len(toolLog) : Failed(toolLog[k])

\* the records of toolLog written in round r
RoundLog(r) == SelectSeq(toolLog, LAMBDA e : e.round = r)

\* the tool Turns of the transcript
ToolTurns == SelectSeq(messages, LAMBDA m : m.role = "tool")

\* C12: a failed tool call fails alone.  Every tool call of a response
\* yields exactly one tool Turn; a call whose arguments do not parse reaches
\* no adapter, and its Turn, like that of an adapter error, reads "Error
\* executing tool: <message>"; the calls after a failed one are still
\* executed, the round ends with the next Chat call, and ProcessMessage
\* returns no error on account of a failed tool call.
C12_FailureAbsorbedPerCall ==
    /\ [](\A k \in 1..Len(toolLog) :
            /\ ToolTurns[k].content = toolLog[k].content
            /\ (toolLog[k].arguments # "" /\ ~ParsesAsMap(toolLog[k].arguments))
                   => toolLog[k].adapter = "none" /\ Failed(toolLog[k])
            /\ Failed(toolLog[k]) =>
                   toolLog[k].content = <<"Error executing tool: ">> \o toolLog[k].err
            /\ ~Failed(toolLog[k]) => toolLog[k].adapter # "none")
    /\ [](Len(ToolTurns) = Len(toolLog))
    /\ [](pc = "tools" => Len(RoundLog(i + 1)) = tc - 1 /\ tc <= Len(choice.toolCalls))
    /\ [](pc = "chat" =>
            /\ Len(RoundLog(i + 1)) = Len(choice.toolCalls)
            /\ \A k \in 1..Len(choice.toolCalls) :
                   /\ RoundLog(i + 1)[k].name = choice.toolCalls[k].name
                   /\ RoundLog(i + 1)[k].arguments = choice.toolCalls[k].arguments)
    /\ [](pc \in {"tools", "chat"} => err = NoError)
    /\ [][pc = "tools" => (chatCalls' = chatCalls /\ pc' \in {"tools", "chat"})]_vars
    /\ [][pc = "chat" => (chatCalls' = chatCalls + 1 /\ toolLog' = toolLog)]_vars
    /\ []((pc = "done" /\ ~gatewayFailed /\ err # NoResponseError) => err = NoError)

\* C12 witness: in one round a call with unparsable arguments failed and the
\* call after it was executed by an adapter, and the run ended without error
C12_Witness ==
    /\ pc = "done"
    /\ err = NoError
    /\ Len(toolLog) >= 2
    /\ toolLog[1].round = toolLog[2].round
    /\ toolLog[1].adapter = "none"
    /\ ~ParsesAsMap(toolLog[1].arguments)
    /\ Failed(toolLog[1])
    /\ ~Failed(toolLog[2])

\* the text an adapter formats for a tool call its service answered
AdapterText(e) ==
    IF e.adapter = "devops"
    THEN DevOpsExecute(e.name, Fields(e.arguments), "ok").result
    ELSE TrelloExecute(e.name, Fields(e.arguments), "ok").result

\* the round-trip scenario of C19: one provider is configured, the first
\* response requested one tool call, which the adapter handled successfully,
\* and the response to the tool result requested no tool call
RoundTrip ==
    /\ pc = "done"
    /\ cfg.devops # cfg.trello
    /\ requested = 1
    /\ Len(toolLog) = 1
    /\ toolLog[1].adapter # "none"
    /\ ~Failed(toolLog[1])
    /\ choice.toolCalls = <<>>
    /\ err = NoError

C13_RegistrySemantics ==
    /\ [](\A c \in CommandNames :
            /\ IsCommandAllowed(allowedCommands, c) <=> c \in everRegistered
            /\ ValidateCommand(allowedCommands, c) = NoError
                   <=> c \in everRegistered)
    /\ [](validatorOp.op = "validate" =>
            (validatorOp.err = NoError
                <=> validatorOp.names \subseteq everRegistered))
    /\ [](\A cs \in SUBSET everRegistered :
            Registered(allowedCommands, cs) = allowedCommands)
    /\ [][allowedCommands \subseteq allowedCommands']_vars

\* C13 witness: a name registered twice validates, while another registered
\* name is still allowed
C13_Witness ==
    /\ validatorOp.op = "validate"
    /\ validatorOp.err = NoError
    /\ validatorOp.names \subseteq allowedCommands
    /\ Cardinality(allowedCommands) >= 2
    /\ allowedCommands # CommandNames

\* both text functions have returned
TextDone == textDone = {"detect", "sanitize"}

\* the input contains a match of a pattern of either list
ContainsPattern(s) ==
    \/ \E k \in 1..Len(SanitizePatterns) : MatchString(SanitizePatterns[k], s)
    \/ \E k \in 1..Len(DetectPatterns) : MatchString(DetectPatterns[k], s)

\* C14 as claimed: for an input that contains an injection pattern detect
\* returns true and sanitize returns the input with the occurrences replaced
\* by "[FILTERED]", so that no pattern is left in it; for an input that
\* contains none detect returns false and sanitize returns the input.
C14_DetectAndRedact ==
    TextDone =>
        IF ContainsPattern(userInput)
        THEN /\ detected
             /\ sanitized # userInput
             /\ FILTERED \in Range(sanitized)
             /\ ~ContainsPattern(sanitized)
        ELSE /\ ~detected
             /\ sanitized = userInput

\* C15 as claimed: detect(text) is true if and only if sanitize(text)
\* differs from text.
C15_DetectIffRedacted == TextDone => (detected <=> sanitized # userInput)

\* C16 as claimed: when DetectPromptInjection flags the message, a
\* warning-level record has been logged by the time of the first Chat call
\* (and the message is still processed).
C16_WarningBeforeFirstChat ==
    (chatCalls > 0 /\ DetectPromptInjection(message)) =>
        \E k \in 1..Len(logs) : logs[k].level = "WARN"

\* C17 as claimed: on every channel, once the caller's context is cancelled
\* no later Chat call succeeds and no tool call performs its external
\* operation.
C17_NothingCompletesAfterCancel == ~lateSuccess

\* the arguments of a logged tool call lack a field, or give an empty value
\* for a field, that the schema of the tool lists as required
MissingRequired(e) ==
    /\ e.arguments = "" \/ ParsesAsMap(e.arguments)
    /\ ~(RequiredFields(e.name) \subseteq Fields(e.arguments))

\* C20 as claimed: a tool call that omits a required field fails with an
\* error tool Turn and its adapter never sends the request to the service.
C20_MissingArgumentNeverSent ==
    \A k \in 1..Len(toolLog) :
        MissingRequired(toolLog[k]) =>
            /\ ~toolLog[k].sent
            /\ Failed(toolLog[k])

\* the locals of a call that runs alone and hears the answers heard[k..]
RECURSIVE Replay(_, _, _, _)
Replay(c, l, heard, k) ==
    IF k > Len(heard) THEN l
    ELSE Replay(c, ProcStep(c, l, l.messages, heard[k]), heard, k + 1)

\* a Turn of call p: its user Turn or an assistant Turn of a response to it
TurnOf(p, m) ==
    \/ m.role = "user" /\ m.content = MessageOf(p)
    \/ m.role = "assistant" /\ \E n \in 1..(maxIterations + 1) :
                                  m.content = ContentFor(p, n)

IsPrefix(a, b) == Len(a) <= Len(b) /\ a = Prefix(b, Len(a))

\* the number of Turns of a transcript that have the given role
TurnsOfRole(transcript, role) ==
    Len(SelectSeq(transcript, LAMBDA m : m.role = role))

\* C26: once ProcessMessage has built its transcript, the transcript has
\* exactly one system Turn, which is its first element, and exactly one user
\* Turn, which is its second; Turns are only ever appended, and the
\* transcript passed to a Chat call strictly extends the transcript passed to
\* the Chat call before.
C26_TranscriptAppendOnly ==
    /\ [](messages # <<>> =>
            /\ messages[1] = [role |-> "system",
                              content |-> buildSystemPrompt(cfg)]
            /\ messages[2] = UserTurn(message)
            /\ TurnsOfRole(messages, "system") = 1
            /\ TurnsOfRole(messages, "user") = 1)
    /\ [](chatCalls > 0 =>
            /\ lastSent[1].role = "system"
            /\ lastSent[2].role = "user"
            /\ TurnsOfRole(lastSent, "system") = 1
            /\ TurnsOfRole(lastSent, "user") = 1
            /\ IsPrefix(lastSent, messages))
    /\ [][IsPrefix(messages, messages')]_vars
    /\ [][chatCalls' # chatCalls =>
            /\ IsPrefix(lastSent, lastSent')
            /\ chatCalls > 0 => Len(lastSent') > Len(lastSent)]_vars

\* C26 witness: the third Chat call was sent a transcript with two rounds of
\* tool Turns
C26_Witness ==
    /\ chatCalls = 3
    /\ Len(lastSent) >= 6
    /\ TurnsOfRole(lastSent, "tool") >= 2
    /\ TurnsOfRole(lastSent, "assistant") = 2

\* the number of rounds that have dispatched tools so far
DispatchedRounds ==
    IF pc \in {"tools", "chat"} THEN i + 1
    ELSE IF toolLog = <<>> THEN 0
    ELSE toolLog[Len(toolLog)].round

\* the Turns of the dispatching rounds r..last: the assistant Turn of the
\* r-th response, then the tool Turns of its calls in the order of the log
RECURSIVE RoundTurns(_, _)
RoundTurns(r, last) ==
    IF r > last THEN <<>>
    ELSE <<[role |-> "assistant", content |-> ContentOf(r)]>>
         \o [k \in 1..Len(RoundLog(r)) |->
               [role |-> "tool", content |-> RoundLog(r)[k].content]]
         \o RoundTurns(r + 1, last)

\* C27: every round that dispatches tools appends one assistant Turn with
\* the content of the response that requested the calls and then one tool
\* Turn per requested call, in request order, whether the call succeeded or
\* failed; after the rounds dispatched so far the transcript has 2 Turns plus
\* one per round plus one per tool call.
C27_OneToolTurnPerRequest ==
    /\ messages # <<>> =>
          /\ messages = SeedTranscript(cfg, message)
                          \o RoundTurns(1, DispatchedRounds)
          /\ Len(messages) = 2 + DispatchedRounds + Len(toolLog)
    /\ \A k \in 1..Len(toolLog) :
          /\ toolLog[k].index >= 1
          /\ k > 1 /\ toolLog[k - 1].round = toolLog[k].round
                => toolLog[k].index = toolLog[k - 1].index + 1
          /\ k > 1 /\ toolLog[k - 1].round # toolLog[k].round
                => toolLog[k].index = 1 /\ toolLog[k].round = toolLog[k - 1].round + 1
    /\ pc = "chat" =>
          /\ Len(toolLog) = requested
          /\ \A k \in 1..Len(choice.toolCalls) :
                /\ RoundLog(i + 1)[k].index = k
                /\ RoundLog(i + 1)[k].name = choice.toolCalls[k].name

\* C27 witness: two rounds have dispatched tools, the first with a call that
\* failed and a call that succeeded: 2 + (1 + 2) + (1 + 1) Turns
C27_Witness ==
    /\ pc = "chat"
    /\ i = 1
    /\ Len(RoundLog(1)) = 2
    /\ Failed(RoundLog(1)[1])
    /\ ~Failed(RoundLog(1)[2])
    /\ Len(messages) = 7

\* the adapters agent.New created, in the order executeTool tries them
EnabledAdapters ==
    (IF cfg.devops THEN <<"devops">> ELSE <<>>)
      \o (IF cfg.trello THEN <<"trello">> ELSE <<>>)

\* adapter a handles the tool name
Handles(a, name) ==
    IF a = "devops" THEN name \in DevOpsToolNames ELSE name \in TrelloToolNames

\* C28: a tool call whose arguments parse is offered to the enabled adapters
\* in the order DevOps, Trello up to and including the first one that
\* handles its name; that adapter alone determines the result or the error,
\* an adapter that does not handle the name is passed over without an
\* error, no adapter is called twice, and the call fails with "unknown
\* tool" exactly when no enabled adapter handles the name.
C28_AdapterDispatch ==
    \A k \in 1..Len(toolLog) :
        LET e == toolLog[k]
            n == Len(e.offered)
        IN (e.arguments = "" \/ ParsesAsMap(e.arguments)) =>
             /\ IsPrefix(e.offered, EnabledAdapters)
             /\ \A j \in 1..n : j < n => ~Handles(e.offered[j], e.name)
             /\ IF \E j \in 1..Len(EnabledAdapters) :
                      Handles(EnabledAdapters[j], e.name)
                THEN /\ n >= 1
                     /\ e.adapter = e.offered[n]
                     /\ Handles(e.adapter, e.name)
                     /\ e.err # <<"unknown tool: ", e.name>>
                     /\ Failed(e) \/ e.content = AdapterText(e)
                ELSE /\ e.offered = EnabledAdapters
                     /\ e.adapter = "none"
                     /\ ~e.sent
                     /\ e.err = <<"unknown tool: ", e.name>>

\* C28 witness: with both adapters enabled a Trello tool was passed over by
\* the DevOps adapter and executed by the Trello adapter
C28_Witness ==
    \E k \in 1..Len(toolLog) :
        /\ toolLog[k].offered = <<"devops", "trello">>
        /\ toolLog[k].adapter = "trello"
        /\ toolLog[k].sent
        /\ ~Failed(toolLog[k])

\* ProcessMessage has returned after a Chat call that succeeded with a
\* response without choices: the latest Chat call neither failed nor gave
\* the local variable choice its value
EmptyResponseReturned ==
    pc = "done" /\ ~gatewayFailed /\ choice.content # ContentOf(chatCalls)

\* C29: when a Chat call succeeds with a response that has no choices, in
\* the first round or a later one, ProcessMessage returns the error "no
\* response from LLM" and an empty reply; no Chat call and no tool execution
\* follows, and the executions of earlier rounds stay as they were.
C29_EmptyResponse ==
    /\ [](EmptyResponseReturned =>
            /\ err = <<"no response from LLM">>
            /\ reply = <<>>
            /\ lastSent = messages)
    /\ [](err = <<"no response from LLM">> => EmptyResponseReturned)
    /\ [][EmptyResponseReturned =>
            (chatCalls' = chatCalls /\ toolLog' = toolLog)]_vars
    /\ [][IsPrefix(toolLog, toolLog')]_vars

\* C29 witness: the response of a later round had no choices, after a tool
\* call whose request had been sent
C29_Witness ==
    /\ EmptyResponseReturned
    /\ err = NoResponseError
    /\ chatCalls >= 2
    /\ \E k \in 1..Len(toolLog) : toolLog[k].sent /\ ~Failed(toolLog[k])

\* C22 as claimed: the tools of a provider are in the catalog sent to the
\* model, and its section in the system Turn, exactly when the provider is
\* enabled in the configuration, and no tool of a disabled provider is
\* executed.
C22_OfferedIffEnabled ==
    chatCalls > 0 =>
        /\ DevOpsToolNames \subseteq getAvailableTools(cfg)
              <=> config.devops.enabled
        /\ TrelloToolNames \subseteq getAvailableTools(cfg)
              <=> config.trello.enabled
        /\ "Azure DevOps" \in Range(lastSent[1].content)
              <=> config.devops.enabled
        /\ "Trello" \in Range(lastSent[1].content) <=> config.trello.enabled
        /\ \A k \in 1..Len(toolLog) :
              /\ toolLog[k].adapter = "devops" => config.devops.enabled
              /\ toolLog[k].adapter = "trello" => config.trello.enabled

-----------------------------------------------------------------------------
(* Properties of llm.Client.Chat                                           *)

\* the completion a backend's answer carries
Emitted ==
    IF isOllamaURL(baseURL)
    THEN [content |-> backendBody.message.content,
          toolCalls |-> backendBody.message.tool_calls,
          finishReason |-> backendBody.done_reason]
    ELSE [content |-> backendBody.choices[1].message.content,
          toolCalls |-> backendBody.choices[1].message.tool_calls
                        \o backendBody.choices[1].tool_calls,
          finishReason |-> backendBody.choices[1].finish_reason]

\* C21: under either protocol the first choice of the response Chat returns
\* carries the completion's content and every tool call the backend emitted,
\* and its finish reason is "stop" when the backend gave none.
C21_UniformResponse ==
    chatReturned =>
        /\ Len(chatResponse) >= 1
        /\ chatResponse[1].Message.Content = Emitted.content
        /\ chatResponse[1].ToolCalls = Emitted.toolCalls
        /\ (Emitted.finishReason = "" => chatResponse[1].FinishReason = "stop")

-----------------------------------------------------------------------------
(* Properties of the Gateway's routes                                      *)

\* the latest request carries a bearer token validly signed with the secret
Authorized ==
    /\ httpRequest.scheme \in {"Bearer", "bearer"}
       \/ (httpRequest.scheme = "" /\ httpRequest.query)
    /\ ValidToken(httpRequest.token, security.JWTSecret)

\* C23: in auth mode "jwt" a request to an /api/v1 endpoint that carries no
\* token, a malformed Authorization header, or a token not validly signed
\* with the secret is answered 401 and reaches no handler.
C23_APIAuthenticated ==
    (/\ httpStatus # 0
     /\ security.AuthMode = "jwt"
     /\ httpRequest.path \in APIPaths
     /\ ~Authorized) => (httpStatus = 401 /\ reached = "none")

-----------------------------------------------------------------------------
(* Properties of the Telegram channel                                      *)

\* C24: with a non-empty allowlist, an update of any kind from a sender who is
\* not on it never reaches the message handler and is answered with the
\* refusal only.
C24_AllowlistOnEveryUpdate ==
    (update # <<>> /\ allowFrom # {} /\ update.sender \notin allowFrom) =>
        /\ ~handlerInvoked
        /\ botSent = <<Fixed("refusal")>>

\* C25: every message sent for a reply text is non-empty and at most
\* maxLength bytes long.
C25_ChunkSize ==
    \A k \in 1..Len(botSent) :
        botSent[k].kind = "reply" =>
            (0 < Len(botSent[k].text) /\ Len(botSent[k].text) <= maxLength)

-----------------------------------------------------------------------------
(* Properties of the WebChat channel's sessions                            *)

\* the positions of message m in the list of session id
Positions(id, m) ==
    {k \in 1..Len(sessionObjects[id].Messages) :
        sessionObjects[id].Messages[k] = m}

\* the number of entries m has in all the sessions' lists
Occurrences(m) ==
    Cardinality({<<id, k>> \in (1..Len(sessionObjects)) \X (1..2 * MaxSends) :
                    k \in Positions(id, m)})

\* C30: under every interleaving a session's list holds each accepted user
\* message once, each reply once and after the user message it answers, no
\* reply for a failed handler call, and nothing else; what handleGetMessages
\* answered is still a prefix of the list; a deleted session is not
\* retrievable.
C30_SessionHistory ==
    /\ \A p \in SendIDs :
        LET c == sendCalls[p]
        IN  /\ Occurrences(userMessage(p)) =
                   (IF c.pc \in {"handler", "failed", "done"} THEN 1 ELSE 0)
            /\ Occurrences(assistantMessage(p)) =
                   (IF c.pc = "done" THEN 1 ELSE 0)
            /\ c.pc \in {"handler", "failed", "done"} =>
                   Positions(c.session, userMessage(p)) # {}
            /\ c.pc = "done" =>
                   \E j \in Positions(c.session, userMessage(p)),
                      k \in Positions(c.session, assistantMessage(p)) : j < k
    /\ \A id \in 1..Len(sessionObjects) :
           Len(sessionObjects[id].Messages) <= 2 * MaxSends
    /\ retrieved # <<>> /\ retrieved.status = 200 =>
           IsPrefix(retrieved.messages,
                    sessionObjects[retrieved.session].Messages)
    /\ deletedIDs \cap sessions = {}

\* two requests to one session, deleted meanwhile, answered in the opposite
\* order, and a retrieval in between
C30_Witness ==
    /\ sendCalls[1].pc = "done"
    /\ sendCalls[2].pc = "done"
    /\ sendCalls[1].session = sendCalls[2].session
    /\ sendCalls[1].session \in deletedIDs
    /\ sessionObjects[sendCalls[1].session].Messages =
           <<userMessage(1), userMessage(2), assistantMessage(2),
             assistantMessage(1)>>
    /\ retrieved # <<>>
    /\ retrieved.status = 200
    /\ Len(retrieved.messages) = 2

=============================================================================
